---- MODULE Spec2Model ----
(***************************************************************************)
(* The upload-storage path of the GraphQL upload server:                   *)
(*   storeUpload     src/graphql/lib/storeUpload.ts                        *)
(*   singleUpload    src/unnamed/part_001, lines 8-10 and 38-40            *)
(*   multipleUpload  src/unnamed/part_001, in its two versions             *)
(*                   (Promise.allSettled over storeUpload, lines 11-22;    *)
(*                    Promise.all over per-item try/catch, lines 41-58)    *)
(*   uploads         src/unnamed/part_001, lines 60-62                     *)
(* Strings are sequences of one-character strings.  The upload directory   *)
(* is a function from entry name to the sequence of chunks written to it.  *)
(* One step of the model is one turn of the event loop: a stream or file   *)
(* system callback together with the promise continuations it triggers.    *)
(***************************************************************************)
EXTENDS Naturals, Sequences, FiniteSets, TLC

\* Largest number of upload handles in a multipleUpload request.
NumHandles == 2

\* Largest number of chunks an upload's read stream emits.
MaxChunks == 2

Handles == 1..NumHandles

\* The files a client may send: a plain filename, one with a query mark, one
\* with a path separator, one with a percent-encoded path separator.
FileUploads ==
  { [filename |-> <<"a">>, mimetype |-> "image/png", encoding |-> "7bit"],
    [filename |-> <<"%", "2", "F">>, mimetype |-> "text/plain",
     encoding |-> "7bit"],
    [filename |-> <<"a", "?", "b">>, mimetype |-> "text/plain",
     encoding |-> "7bit"],
    [filename |-> <<"a", "/", "b">>, mimetype |-> "image/png",
     encoding |-> "base64"] }

\* upload.file before the transport has delivered the file.
NoFile == [filename |-> <<>>, mimetype |-> "", encoding |-> ""]

\* An entry left in the upload directory by an earlier run.
OldName == <<"0", "-", "a">>

OldContent == << <<0, 1>> >>

VARIABLES
  variant,          \* which version of the resolvers is deployed
  files,            \* the handles of the request, the `files` argument
  uploads,          \* the FileUpload of each handle (its metadata)
  promise,          \* state of each handle's Upload.promise
  mu,               \* state of the multipleUpload call
  su,               \* state of the promise singleUpload returned
  task,             \* per-handle async map callback (Promise.all version)
  storePromise,     \* state of the promise returned by storeUpload
  value,            \* the record a storeUpload promise resolved with
  reason,           \* the error a storeUpload promise rejected with
  storedFileName,   \* storedFileName of the invocation, <<>> before it starts
  counter,          \* shortid's generator state
  fresh,            \* shortid never returns the same identifier twice
  ids,              \* the number shortid made each invocation's id of
  rs,               \* read stream of the upload
  sent,             \* chunks the read stream has emitted
  wbuf,             \* chunks written to the write stream, not yet on disk
  ws,               \* write stream
  wsError,          \* the error the write stream was destroyed with
  unlinkError,      \* the error passed to the unlink callback
  dir,              \* the upload directory
  storedFileNames,  \* the result array of multipleUpload
  diagnostics,      \* handles logged by console.error, in order
  completed         \* handles in the order their storeUpload promise settled

vars ==
  << variant, files, uploads, promise, mu, su, task, storePromise, value,
     reason, storedFileName, counter, fresh, ids, rs, sent, wbuf, ws, wsError,
     unlinkError, dir, storedFileNames, diagnostics, completed >>

-----------------------------------------------------------------------------
(* Pure helpers *)

\* shortId.generate(): the identifier made of the number c.
generate(c) == << ToString(c) >>

\* Variant of ComposeStoredFileName: the generated identifier is left out.
ComposeWithoutId(id, filename) == <<"-">> \o filename

\* `${shortId.generate()}-${filename}`
ComposeStoredFileName(id, filename) == id \o <<"-">> \o filename

\* The part of a relative URL reference before its query or fragment.
RECURSIVE Pathname(_)
Pathname(s) ==
  IF s = <<>> \/ Head(s) \in {"?", "#"}
  THEN <<>>
  ELSE <<Head(s)>> \o Pathname(Tail(s))

\* A path split at its separators.
RECURSIVE Segments(_)
Segments(s) ==
  IF s = <<>> THEN << <<>> >>
  ELSE IF Head(s) = "/" THEN << <<>> >> \o Segments(Tail(s))
  ELSE LET rest == Segments(Tail(s))
       IN  << <<Head(s)>> \o Head(rest) >> \o Tail(rest)

\* new URL(storedFileName, UPLOAD_DIRECTORY_URL): the path of the target
\* below the upload directory, as a sequence of segments.
storedFileUrl(name) == Segments(Pathname(name))

\* createWriteStream(storedFileUrl) turns the file URL into a path before it
\* opens anything, and throws when the URL path holds an encoded "/".
EncodedSlash(url) ==
  \E k \in DOMAIN url :
    \E i \in 1..(Len(url[k]) - 2) :
      url[k][i] = "%" /\ url[k][i + 1] = "2" /\ url[k][i + 2] \in {"F", "f"}

\* The target is an entry of the upload directory itself.
InUploadDir(url) == Len(url) = 1

\* Variant of CreateFile: opening the target empties the whole directory.
CreateFileAlone(d, name) == [n \in {name} |-> <<>>]

\* fs open with flag 'w': create the entry, or truncate it.
CreateFile(d, name) ==
  [n \in DOMAIN d \cup {name} |-> IF n = name THEN <<>> ELSE d[n]]

\* Variant of WriteChunk: the chunk is put in front of what is there.
WriteChunkFirst(d, name, chunk) ==
  [n \in DOMAIN d |-> IF n = name THEN <<chunk>> \o d[n] ELSE d[n]]

\* fs write at the end of the open file.
WriteChunk(d, name, chunk) ==
  [n \in DOMAIN d |-> IF n = name THEN Append(d[n], chunk) ELSE d[n]]

\* Variant of RemoveFile: the unlink is not carried out.
RemoveFileSkipped(d, name) == d

RemoveFile(d, name) ==
  [n \in DOMAIN d \ {name} |-> d[n]]

\* readdir(UPLOAD_DIRECTORY_URL)
readdir == DOMAIN dir

-----------------------------------------------------------------------------
\* The server before any request: nothing delivered, nothing called, the
\* upload directory holding one entry of an earlier run.
Idle ==
  /\ uploads = [h \in Handles |-> NoFile]
  /\ promise = [h \in Handles |-> "pending"]
  /\ mu = "idle"
  /\ su = [state |-> "idle", reason |-> "none"]
  /\ task = [h \in Handles |-> "none"]
  /\ storePromise = [h \in Handles |-> "none"]
  /\ value = [h \in Handles |-> NoFile]
  /\ reason = [h \in Handles |-> "none"]
  /\ storedFileName = [h \in Handles |-> <<>>]
  /\ counter = 1
  /\ ids = [h \in Handles |-> 0]
  /\ rs = [h \in Handles |-> "none"]
  /\ sent = [h \in Handles |-> 0]
  /\ wbuf = [h \in Handles |-> <<>>]
  /\ ws = [h \in Handles |-> "none"]
  /\ wsError = [h \in Handles |-> "none"]
  /\ unlinkError = [h \in Handles |-> "none"]
  /\ dir = [n \in {OldName} |-> OldContent]
  /\ storedFileNames = <<>>
  /\ diagnostics = <<>>
  /\ completed = <<>>

\* A multipleUpload request with NumHandles files.
Init ==
  /\ variant \in {"allSettled", "all"}
  /\ files = Handles
  /\ fresh = TRUE
  /\ Idle

\* A singleUpload request.
InitSingle ==
  /\ variant \in {"allSettled", "all"}
  /\ files = {1}
  /\ fresh = TRUE
  /\ Idle

\* A multipleUpload request with any number of files, none included.
InitAnySize ==
  /\ variant \in {"allSettled", "all"}
  /\ files \in { 1..n : n \in 0..NumHandles }
  /\ fresh = TRUE
  /\ Idle

\* A multipleUpload request served by a process whose shortid may or may not
\* return an identifier it has returned before.
InitAnyIds ==
  /\ variant \in {"allSettled", "all"}
  /\ files = Handles
  /\ fresh \in BOOLEAN
  /\ Idle

-----------------------------------------------------------------------------
(* Promise combinators and the result of storeUpload *)

\* Promise.all: rejected as soon as one input is, fulfilled once all are.
PromiseAll(ps) ==
  IF \E h \in files : ps[h] = "rejected" THEN "rejected"
  ELSE IF \A h \in files : ps[h] = "fulfilled" THEN "fulfilled"
  ELSE "pending"

\* Variant of PromiseAllSettled: settled as soon as one input is (a race).
PromiseRace(ps) ==
  IF \E h \in files : ps[h] \in {"fulfilled", "rejected"}
  THEN "fulfilled"
  ELSE "pending"

\* Promise.allSettled: fulfilled once every input is fulfilled or rejected.
PromiseAllSettled(ps) ==
  IF \A h \in files : ps[h] \in {"fulfilled", "rejected"}
  THEN "fulfilled"
  ELSE "pending"

\* Variant of StoredFile: the original filename is returned, not the stored.
StoredFileOriginalName(h) ==
  [ filename |-> uploads[h].filename,
    mimetype |-> uploads[h].mimetype,
    encoding |-> uploads[h].encoding ]

\* The object storeUpload returns.
StoredFile(h) ==
  [ filename |-> storedFileName[h],
    mimetype |-> uploads[h].mimetype,
    encoding |-> uploads[h].encoding ]

\* for (const result of results): the values pushed, in the order of `files`.
RECURSIVE Values(_, _, _)
Values(ps, vs, h) ==
  IF h > NumHandles THEN <<>>
  ELSE (IF ps[h] = "fulfilled" THEN << vs[h] >> ELSE <<>>)
       \o Values(ps, vs, h + 1)

RECURSIVE Reverse(_)
Reverse(q) == IF q = <<>> THEN <<>> ELSE Append(Reverse(Tail(q)), Head(q))

\* Variant of SettledValues: the results are walked from the last to the first.
SettledValuesReversed(ps, vs) == Reverse(Values(ps, vs, 1))

\* The array multipleUpload builds from the results of Promise.allSettled.
SettledValues(ps, vs) == Values(ps, vs, 1)

\* for (const result of results): the reasons logged, in the order of `files`.
RECURSIVE Reasons(_, _)
Reasons(ps, h) ==
  IF h > NumHandles THEN <<>>
  ELSE (IF ps[h] = "rejected" THEN << h >> ELSE <<>>) \o Reasons(ps, h + 1)

\* Variant of CatchOutcome: the error is thrown again.
CatchRethrown == "rejected"

\* The state of the map callback of the Promise.all version once the
\* storeUpload it awaits has rejected: the catch block swallows the error.
CatchOutcome == "fulfilled"

\* Variant of RejectReason: the unlink error, when there is one, wins.
RejectReasonUnlinkFirst(error, err) == IF err # "none" THEN err ELSE error

\* reject(error) inside the unlink callback: the callback takes no argument,
\* so the unlink error is dropped.
RejectReason(error, err) == error

\* The multipleUpload call after the join promise reaches state j.
Joined(m, j) ==
  IF m # "pending" THEN m
  ELSE IF j = "fulfilled" THEN "returned"
  ELSE IF j = "rejected" THEN "threw"
  ELSE m

\* Variant of SingleUploadSettled: the failure is swallowed.
SingleUploadSwallowed(o, why) == [state |-> "fulfilled", reason |-> "none"]

\* singleUpload returns the promise of storeUpload: the promise the caller
\* holds settles as that one does, with the same error.
SingleUploadSettled(o, why) == [state |-> o, reason |-> why]

\* The storeUpload promise of h settles with outcome o, and the promise
\* continuations that depend on it run.
Settle(h, o, why) ==
  /\ storePromise' = [storePromise EXCEPT ![h] = o]
  /\ value' = IF o = "fulfilled"
              THEN [value EXCEPT ![h] = StoredFile(h)]
              ELSE value
  /\ reason' = [reason EXCEPT ![h] = why]
  /\ completed' = Append(completed, h)
  /\ IF su.state = "pending"
     THEN /\ su' = SingleUploadSettled(o, why)
          /\ UNCHANGED << mu, task, storedFileNames, diagnostics >>
     ELSE /\ su' = su
          /\ IF variant = "all"
             THEN /\ task' = [task EXCEPT ![h] =
                                IF o = "fulfilled" THEN "fulfilled"
                                ELSE CatchOutcome]
                  /\ storedFileNames' =
                       IF o = "fulfilled"
                       THEN Append(storedFileNames, value'[h])
                       ELSE storedFileNames
                  /\ diagnostics' =
                       IF o = "rejected" /\ CatchOutcome = "fulfilled"
                       THEN Append(diagnostics, h)
                       ELSE diagnostics
                  /\ mu' = Joined(mu, PromiseAll(task'))
             ELSE /\ task' = task
                  /\ LET j == PromiseAllSettled(storePromise')
                         done == mu = "pending" /\ j = "fulfilled"
                     IN  /\ storedFileNames' =
                              IF done
                              THEN SettledValues(storePromise', value')
                              ELSE storedFileNames
                         /\ diagnostics' =
                              IF done THEN Reasons(storePromise', 1)
                              ELSE diagnostics
                         /\ mu' = Joined(mu, j)

\* The numbers the call of shortId.generate() in generator state c may make
\* its identifier of: identifiers are random characters, unique by the
\* library's contract only.
Generated(c) == IF fresh THEN {c} ELSE 1..c

\* createWriteStream(storedFileUrl) throws for the stored name `name`.
Throws(name) == EncodedSlash(storedFileUrl(name))

\* The error storeUpload rejects with when createWriteStream throws.
ThrownError == "ERR_INVALID_FILE_URL_PATH"

\* The read stream and write stream the storeUpload invocations of the
\* handles S create, given the stored names; where createWriteStream throws
\* there is no write stream and the read stream is never read.
StartStreams(S, names) ==
  /\ rs' = [h \in Handles |->
              IF h \notin S THEN rs[h]
              ELSE IF Throws(names[h]) THEN "unread"
              ELSE "flowing"]
  /\ ws' = [h \in Handles |->
              IF h \in S /\ ~Throws(names[h]) THEN "opening" ELSE ws[h]]

\* storeUpload(upload) runs for a delivered handle up to its `await`: the
\* stored name is composed and the streams are created.
StoreUploadCalled(h) ==
  /\ counter' = counter + 1
  /\ \E c \in Generated(counter) : ids' = [ids EXCEPT ![h] = c]
  /\ storedFileName' =
       [storedFileName EXCEPT
          ![h] = ComposeStoredFileName(generate(ids'[h]), uploads[h].filename)]
  /\ StartStreams({h}, storedFileName')

-----------------------------------------------------------------------------
(* The transport layer *)

\* Upload.resolve(file): the multipart part of handle h has arrived.
Deliver(h) ==
  /\ promise[h] = "pending"
  /\ promise' = [promise EXCEPT ![h] = "resolved"]
  /\ \E file \in FileUploads : uploads' = [uploads EXCEPT ![h] = file]
  /\ UNCHANGED << variant, files, fresh, mu, su, task, storePromise, value,
                  reason, storedFileName, ids, counter, rs, sent, wbuf, ws,
                  wsError, unlinkError, dir, storedFileNames, diagnostics,
                  completed >>

\* Upload.reject(error): the transport never delivers the file of h.
TransportReject(h) ==
  /\ promise[h] = "pending"
  /\ promise' = [promise EXCEPT ![h] = "rejected"]
  /\ UNCHANGED << variant, files, fresh, uploads, mu, su, task, storePromise,
                  value, reason, storedFileName, ids, counter, rs, sent, wbuf,
                  ws, wsError, unlinkError, dir, storedFileNames, diagnostics,
                  completed >>

-----------------------------------------------------------------------------
(* multipleUpload *)

\* Promise.allSettled(files.map(storeUpload)): storeUpload reads upload.file
\* at once; it is undefined until the transport has delivered the file, and
\* destructuring it then throws a TypeError.
MultipleUploadAllSettled ==
  /\ variant = "allSettled"
  /\ mu = "idle"
  /\ LET S == { h \in files : promise[h] = "resolved" }
         Rank(h) == Cardinality({ g \in S : g < h })
     IN  /\ counter' = counter + Cardinality(S)
         /\ \E c \in [S -> 1..(counter + NumHandles)] :
              /\ \A h \in S : c[h] \in Generated(counter + Rank(h))
              /\ ids' = [h \in Handles |-> IF h \in S THEN c[h] ELSE ids[h]]
         /\ storedFileName' =
              [h \in Handles |->
                 IF h \in S
                 THEN ComposeStoredFileName(generate(ids'[h]),
                                            uploads[h].filename)
                 ELSE <<>>]
         /\ StartStreams(S, storedFileName')
         /\ storePromise' =
              [h \in Handles |->
                 IF h \notin files THEN "none"
                 ELSE IF h \in S /\ ~Throws(storedFileName'[h]) THEN "pending"
                 ELSE "rejected"]
         /\ value' = value
         /\ reason' =
              [h \in Handles |->
                 IF h \in files \ S THEN "TypeError"
                 ELSE IF h \in S /\ Throws(storedFileName'[h])
                      THEN ThrownError
                 ELSE "none"]
         /\ completed' = Reasons(storePromise', 1)
         /\ storedFileNames' = <<>>
         /\ LET j == PromiseAllSettled(storePromise')
            IN  /\ diagnostics' =
                     IF j = "fulfilled" THEN Reasons(storePromise', 1)
                     ELSE <<>>
                /\ mu' = Joined("pending", j)
  /\ UNCHANGED << variant, files, fresh, uploads, promise, su, task, sent,
                  wbuf, wsError, unlinkError, dir >>

\* Variant of MultipleUploadAll: a sequential loop, which starts with the
\* first handle only.
MultipleUploadSequential ==
  /\ variant = "all"
  /\ mu = "idle"
  /\ task' = [h \in Handles |-> IF h = 1 /\ h \in files THEN "awaiting"
                                ELSE "none"]
  /\ mu' = "pending"
  /\ storedFileNames' = <<>>
  /\ UNCHANGED << variant, files, fresh, uploads, promise, su, storePromise,
                  value, reason, storedFileName, ids, counter, rs, sent, wbuf,
                  ws, wsError, unlinkError, dir, diagnostics, completed >>

\* Promise.all(filesProfiles.map(async ({ promise }) => ...)): every
\* callback runs up to `await promise`.
MultipleUploadAll ==
  /\ variant = "all"
  /\ mu = "idle"
  /\ task' = [h \in Handles |-> IF h \in files THEN "awaiting" ELSE "none"]
  /\ mu' = Joined("pending", PromiseAll(task'))
  /\ storedFileNames' = <<>>
  /\ UNCHANGED << variant, files, fresh, uploads, promise, su, storePromise,
                  value, reason, storedFileName, ids, counter, rs, sent, wbuf,
                  ws, wsError, unlinkError, dir, diagnostics, completed >>

\* `const file = await promise` resumes: storeUpload({ file }) is called.
\* When createWriteStream throws, storeUpload rejects and the catch block
\* runs in the same turn.
AwaitResolved(h) ==
  /\ task[h] = "awaiting"
  /\ promise[h] = "resolved"
  /\ StoreUploadCalled(h)
  /\ IF Throws(storedFileName'[h])
     THEN Settle(h, "rejected", ThrownError)
     ELSE /\ task' = [task EXCEPT ![h] = "storing"]
          /\ storePromise' = [storePromise EXCEPT ![h] = "pending"]
          /\ UNCHANGED << mu, su, value, reason, storedFileNames, diagnostics,
                          completed >>
  /\ UNCHANGED << variant, files, fresh, uploads, promise, sent, wbuf,
                  wsError, unlinkError, dir >>

\* `await promise` throws: the catch block logs; no storeUpload is called.
AwaitRejected(h) ==
  /\ task[h] = "awaiting"
  /\ promise[h] = "rejected"
  /\ task' = [task EXCEPT ![h] = CatchOutcome]
  /\ diagnostics' =
       IF CatchOutcome = "fulfilled" THEN Append(diagnostics, h)
       ELSE diagnostics
  /\ mu' = Joined(mu, PromiseAll(task'))
  /\ UNCHANGED << variant, files, fresh, uploads, promise, su, storePromise,
                  value, reason, storedFileName, ids, counter, rs, sent, wbuf,
                  ws, wsError, unlinkError, dir, storedFileNames, completed >>

-----------------------------------------------------------------------------
(* singleUpload *)

\* singleUpload: storeUpload(file) in the first version, storeUpload(await
\* file) in the second.  `file` is the Upload object, which is no thenable,
\* so in both storeUpload reads upload.file at once: undefined until the
\* transport has delivered the file, and destructuring it throws a TypeError.
SingleUpload(h) ==
  /\ mu = "idle"
  /\ su.state = "idle"
  /\ IF promise[h] = "resolved"
     THEN /\ StoreUploadCalled(h)
          /\ IF Throws(storedFileName'[h])
             THEN /\ storePromise' = [storePromise EXCEPT ![h] = "rejected"]
                  /\ reason' = [reason EXCEPT ![h] = ThrownError]
                  /\ completed' = Append(completed, h)
                  /\ su' = SingleUploadSettled("rejected", ThrownError)
             ELSE /\ storePromise' = [storePromise EXCEPT ![h] = "pending"]
                  /\ su' = [state |-> "pending", reason |-> "none"]
                  /\ UNCHANGED << reason, completed >>
     ELSE /\ storePromise' = [storePromise EXCEPT ![h] = "rejected"]
          /\ reason' = [reason EXCEPT ![h] = "TypeError"]
          /\ completed' = Append(completed, h)
          /\ su' = SingleUploadSettled("rejected", "TypeError")
          /\ UNCHANGED << storedFileName, ids, counter, rs, ws >>
  /\ UNCHANGED << variant, files, fresh, uploads, promise, mu, task, value,
                  sent, wbuf, wsError, unlinkError, dir, storedFileNames,
                  diagnostics >>

-----------------------------------------------------------------------------
(* storeUpload: the events of one invocation's streams *)

\* The directory entry the write stream of h writes to.
Target(h) == storedFileUrl(storedFileName[h])[1]

\* The target is an entry of the upload directory.
TargetExists(h) ==
  /\ storedFileName[h] # <<>>
  /\ InUploadDir(storedFileUrl(storedFileName[h]))
  /\ Target(h) \in DOMAIN dir

\* What the promises and the resolver hold: what a settling changes.
settled ==
  << mu, su, task, storePromise, value, reason, storedFileNames, diagnostics,
     completed >>

\* Variant of OnError: the handler rejects first and unlinks afterwards.
OnErrorRejectFirst(h, error) ==
  /\ ws' = [ws EXCEPT ![h] = "unlinking"]
  /\ wsError' = [wsError EXCEPT ![h] = error]
  /\ wbuf' = [wbuf EXCEPT ![h] = <<>>]
  /\ IF storePromise[h] = "pending"
     THEN Settle(h, "rejected", error)
     ELSE UNCHANGED settled

\* The write stream is destroyed with an error (its buffer is dropped) and
\* emits 'error'; the handler issues unlink(storedFileUrl, ...) and rejects
\* the promise only in the unlink callback.
OnError(h, error) ==
  /\ ws' = [ws EXCEPT ![h] = "unlinking"]
  /\ wsError' = [wsError EXCEPT ![h] = error]
  /\ wbuf' = [wbuf EXCEPT ![h] = <<>>]
  /\ UNCHANGED settled

\* The read stream emits a chunk; pipe writes it to the write stream.
Data(h) ==
  /\ rs[h] = "flowing"
  /\ ws[h] \in {"opening", "open"}
  /\ wsError[h] = "none"
  /\ sent[h] < MaxChunks
  /\ sent' = [sent EXCEPT ![h] = @ + 1]
  /\ wbuf' = [wbuf EXCEPT ![h] = Append(@, <<h, sent[h] + 1>>)]
  /\ UNCHANGED << variant, files, fresh, uploads, promise, mu, su, task,
                  storePromise, value, reason, storedFileName, ids, counter,
                  rs, ws, wsError, unlinkError, dir, storedFileNames,
                  diagnostics, completed >>

\* The read stream ends; pipe calls writeStream.end().
ReadEnd(h) ==
  /\ rs[h] = "flowing"
  /\ ws[h] \in {"opening", "open"}
  /\ wsError[h] = "none"
  /\ rs' = [rs EXCEPT ![h] = "ended"]
  /\ UNCHANGED << variant, files, fresh, uploads, promise, mu, su, task,
                  storePromise, value, reason, storedFileName, ids, counter,
                  sent, wbuf, ws, wsError, unlinkError, dir, storedFileNames,
                  diagnostics, completed >>

\* stream.on('error', (error) => writeStream.destroy(error)).  A write
\* stream that is still opening is destroyed once the open has completed.
ReadError(h) ==
  /\ rs[h] = "flowing"
  /\ ws[h] \in {"opening", "open"}
  /\ wsError[h] = "none"
  /\ rs' = [rs EXCEPT ![h] = "errored"]
  /\ IF ws[h] = "open"
     THEN OnError(h, "EREAD")
     ELSE /\ wsError' = [wsError EXCEPT ![h] = "EREAD"]
          /\ UNCHANGED << ws, wbuf >>
          /\ UNCHANGED settled
  /\ UNCHANGED << variant, files, fresh, uploads, promise, storedFileName,
                  ids, counter, sent, unlinkError, dir >>

\* The read stream is destroyed without an error before it has ended: it
\* emits 'close' only.  pipe forwards 'end', the handler of line 43 forwards
\* 'error'; nothing listens to 'close', so the write stream is left as it is.
ReadClose(h) ==
  /\ rs[h] = "flowing"
  /\ ws[h] \in {"opening", "open"}
  /\ wsError[h] = "none"
  /\ rs' = [rs EXCEPT ![h] = "closed"]
  /\ UNCHANGED << variant, files, fresh, uploads, promise, mu, su, task,
                  storePromise, value, reason, storedFileName, ids, counter,
                  sent, wbuf, ws, wsError, unlinkError, dir, storedFileNames,
                  diagnostics, completed >>

\* createWriteStream(storedFileUrl): the open succeeds and creates the entry.
OpenDone(h) ==
  /\ ws[h] = "opening"
  /\ InUploadDir(storedFileUrl(storedFileName[h]))
  /\ dir' = CreateFile(dir, Target(h))
  /\ IF wsError[h] = "none"
     THEN /\ ws' = [ws EXCEPT ![h] = "open"]
          /\ UNCHANGED << wsError, wbuf >>
          /\ UNCHANGED settled
     ELSE OnError(h, wsError[h])
  /\ UNCHANGED << variant, files, fresh, uploads, promise, storedFileName,
                  ids, counter, rs, sent, unlinkError >>

\* The open fails: always when the target lies in a directory that does not
\* exist, otherwise by a storage error.
OpenFail(h) ==
  /\ ws[h] = "opening"
  /\ OnError(h, IF wsError[h] = "none" THEN "EOPEN" ELSE wsError[h])
  /\ UNCHANGED << variant, files, fresh, uploads, promise, storedFileName,
                  ids, counter, rs, sent, unlinkError, dir >>

\* The write stream writes its oldest buffered chunk to the file.
WriteDone(h) ==
  /\ ws[h] = "open"
  /\ wbuf[h] # <<>>
  /\ dir' = WriteChunk(dir, Target(h), Head(wbuf[h]))
  /\ wbuf' = [wbuf EXCEPT ![h] = Tail(@)]
  /\ UNCHANGED << variant, files, fresh, uploads, promise, mu, su, task,
                  storePromise, value, reason, storedFileName, ids, counter,
                  rs, sent, ws, wsError, unlinkError, storedFileNames,
                  diagnostics, completed >>

\* A write fails: the write stream emits 'error'.
WriteFail(h) ==
  /\ ws[h] = "open"
  /\ wbuf[h] # <<>>
  /\ OnError(h, "EWRITE")
  /\ UNCHANGED << variant, files, fresh, uploads, promise, storedFileName,
                  ids, counter, rs, sent, unlinkError, dir >>

\* writeStream.on('finish', resolve): everything is written; storeUpload
\* returns its record.
Finish(h) ==
  /\ ws[h] = "open"
  /\ rs[h] = "ended"
  /\ wbuf[h] = <<>>
  /\ ws' = [ws EXCEPT ![h] = "finished"]
  /\ Settle(h, "fulfilled", "none")
  /\ UNCHANGED << variant, files, fresh, uploads, promise, storedFileName,
                  ids, counter, rs, sent, wbuf, wsError, unlinkError, dir >>

\* The finished write stream closes its file descriptor.
CloseDone(h) ==
  /\ ws[h] = "finished"
  /\ ws' = [ws EXCEPT ![h] = "closed"]
  /\ UNCHANGED << variant, files, fresh, uploads, promise, mu, su, task,
                  storePromise, value, reason, storedFileName, ids, counter,
                  rs, sent, wbuf, wsError, unlinkError, dir, storedFileNames,
                  diagnostics, completed >>

\* Closing the finished write stream fails: it emits 'error' after 'finish'.
CloseFail(h) ==
  /\ ws[h] = "finished"
  /\ OnError(h, "ECLOSE")
  /\ UNCHANGED << variant, files, fresh, uploads, promise, storedFileName,
                  ids, counter, rs, sent, unlinkError, dir >>

\* The unlink callback: reject(error).  Rejecting a promise that is already
\* resolved does nothing.
UnlinkCallback(h, err) ==
  /\ ws' = [ws EXCEPT ![h] = "destroyed"]
  /\ unlinkError' = [unlinkError EXCEPT ![h] = err]
  /\ IF storePromise[h] = "pending"
     THEN Settle(h, "rejected", RejectReason(wsError[h], err))
     ELSE UNCHANGED settled

\* unlink(storedFileUrl, ...) removes the target.
UnlinkDone(h) ==
  /\ ws[h] = "unlinking"
  /\ TargetExists(h)
  /\ dir' = RemoveFile(dir, Target(h))
  /\ UnlinkCallback(h, "none")
  /\ UNCHANGED << variant, files, fresh, uploads, promise, storedFileName,
                  ids, counter, rs, sent, wbuf, wsError >>

\* unlink(storedFileUrl, ...) fails: there is no such entry, or the storage
\* refuses; the target is left as it is.
UnlinkFail(h) ==
  /\ ws[h] = "unlinking"
  /\ dir' = dir
  /\ UnlinkCallback(h, IF TargetExists(h) THEN "EPERM" ELSE "ENOENT")
  /\ UNCHANGED << variant, files, fresh, uploads, promise, storedFileName,
                  ids, counter, rs, sent, wbuf, wsError >>

-----------------------------------------------------------------------------
Next ==
  \/ \E h \in files : Deliver(h)
  \/ \E h \in files : TransportReject(h)
  \/ MultipleUploadAllSettled
  \/ MultipleUploadAll
  \/ \E h \in files : AwaitResolved(h)
  \/ \E h \in files : AwaitRejected(h)
  \/ \E h \in files : Data(h)
  \/ \E h \in files : ReadEnd(h)
  \/ \E h \in files : ReadError(h)
  \/ \E h \in files : ReadClose(h)
  \/ \E h \in files : OpenDone(h)
  \/ \E h \in files : OpenFail(h)
  \/ \E h \in files : WriteDone(h)
  \/ \E h \in files : WriteFail(h)
  \/ \E h \in files : Finish(h)
  \/ \E h \in files : CloseDone(h)
  \/ \E h \in files : CloseFail(h)
  \/ \E h \in files : UnlinkDone(h)
  \/ \E h \in files : UnlinkFail(h)

Spec == Init /\ [][Next]_vars

\* The same server answering a request of any size.
SpecAnySize == InitAnySize /\ [][Next]_vars

\* The steps of a singleUpload request.
NextSingle ==
  \/ \E h \in files : Deliver(h)
  \/ \E h \in files : TransportReject(h)
  \/ \E h \in files : SingleUpload(h)
  \/ \E h \in files : Data(h)
  \/ \E h \in files : ReadEnd(h)
  \/ \E h \in files : ReadError(h)
  \/ \E h \in files : ReadClose(h)
  \/ \E h \in files : OpenDone(h)
  \/ \E h \in files : OpenFail(h)
  \/ \E h \in files : WriteDone(h)
  \/ \E h \in files : WriteFail(h)
  \/ \E h \in files : Finish(h)
  \/ \E h \in files : CloseDone(h)
  \/ \E h \in files : CloseFail(h)
  \/ \E h \in files : UnlinkDone(h)
  \/ \E h \in files : UnlinkFail(h)

SpecSingle == InitSingle /\ [][NextSingle]_vars

\* The same server without the assumption that identifiers never repeat.
SpecAnyIds == InitAnyIds /\ [][Next]_vars

-----------------------------------------------------------------------------
(* Vocabulary of the properties *)

\* storeUpload has been called for h.
Started(h) == storedFileName[h] # <<>>

\* Number of positions of q that hold x.
Count(q, x) == Cardinality({ i \in DOMAIN q : q[i] = x })

\* The position of x in q.
Pos(q, x) == CHOOSE i \in DOMAIN q : q[i] = x

\* The chunks the read stream of h has emitted, in emission order.
Emitted(h) == [k \in 1..sent[h] |-> <<h, k>>]

\* The read stream of h ended and its write stream finished without error.
CleanSuccess(h) == rs[h] = "ended" /\ ws[h] \in {"finished", "closed"}

\* The per-handle work of multipleUpload is still going on.
InProgress(h) ==
  storePromise[h] = "pending" \/ task[h] \in {"awaiting", "storing"}

\* The handle whose record is at position i of the result.
HandleAt(i) ==
  CHOOSE h \in Handles :
    storePromise[h] = "fulfilled" /\ value[h] = storedFileNames[i]

-----------------------------------------------------------------------------
(* C1 *)

\* C1 as claimed: once storeUpload has rejected after a stream error, there
\* is no file at the invocation's target path.
C1_NoFileAfterReject ==
  \A h \in Handles :
    (Started(h) /\ storePromise[h] = "rejected") => ~TargetExists(h)

\* C1, amended: once storeUpload has rejected after a stream error, there is
\* no file at the invocation's target path unless the unlink of that target
\* failed.
C1_NoFileUnlessUnlinkFailed ==
  \A h \in Handles :
    (Started(h) /\ storePromise[h] = "rejected")
      => (~TargetExists(h) \/ unlinkError[h] = "EPERM")

\* A read stream erred after a chunk was written; the store rejected and the
\* partial file is gone.
C1_Witness ==
  \E h \in Handles :
    /\ storePromise[h] = "rejected"
    /\ reason[h] = "EREAD"
    /\ sent[h] >= 1
    /\ unlinkError[h] = "none"
    /\ InUploadDir(storedFileUrl(storedFileName[h]))
    /\ ~TargetExists(h)

-----------------------------------------------------------------------------
(* C2 *)

\* C2: multipleUpload never throws; when it has returned, the result holds
\* exactly one record for each handle whose store succeeded and nothing
\* else, and the log holds exactly one diagnostic for each other handle and
\* none for a handle whose store succeeded.
C2_NeverFailsExactResult ==
  /\ mu # "threw"
  /\ mu = "returned" =>
       /\ \A h \in Handles :
            /\ storePromise[h] = "fulfilled" =>
                 /\ Count(storedFileNames, value[h]) = 1
                 /\ Count(diagnostics, h) = 0
            /\ storePromise[h] # "fulfilled" => Count(diagnostics, h) = 1
       /\ \A i \in DOMAIN storedFileNames :
            \E h \in Handles :
              storePromise[h] = "fulfilled" /\ storedFileNames[i] = value[h]
       /\ Len(storedFileNames) =
            Cardinality({ h \in Handles : storePromise[h] = "fulfilled" })

\* multipleUpload returned an empty result: every handle failed.
C2_Witness ==
  /\ mu = "returned"
  /\ storedFileNames = <<>>
  /\ \A h \in Handles : storePromise[h] = "rejected" /\ Started(h)
  /\ Len(diagnostics) = NumHandles

-----------------------------------------------------------------------------
(* C3 *)

\* C3: when multipleUpload has returned, no per-handle store invocation is
\* still in progress.
C3_FullJoin ==
  mu = "returned" => \A h \in Handles : ~InProgress(h)

\* multipleUpload returned after a store that failed first and a store that
\* succeeded last.
C3_Witness ==
  /\ mu = "returned"
  /\ Len(completed) = NumHandles
  /\ storePromise[completed[1]] = "rejected"
  /\ Started(completed[1])
  /\ storePromise[completed[NumHandles]] = "fulfilled"

-----------------------------------------------------------------------------
(* C4 *)

\* C4: when multipleUpload has returned, every handle whose own read stream
\* ended and whose write finished without error has its complete file in
\* the upload directory and its record in the result, whatever the other
\* handles did.
C4_FailureDoesNotRollBack ==
  mu = "returned" =>
    \A h \in Handles :
      CleanSuccess(h) =>
        /\ TargetExists(h)
        /\ dir[Target(h)] = Emitted(h)
        /\ Count(storedFileNames, value[h]) = 1

\* One handle stored its file cleanly while another handle with the same
\* original filename failed and had its target unlinked.
C4_Witness ==
  /\ mu = "returned"
  /\ \E h, g \in Handles :
       /\ h # g
       /\ CleanSuccess(h)
       /\ sent[h] >= 1
       /\ uploads[h].filename = uploads[g].filename
       /\ storePromise[g] = "rejected"
       /\ ws[g] = "destroyed"
       /\ unlinkError[g] = "none"

-----------------------------------------------------------------------------
(* C5 *)

\* C5: when the write failed and the unlink of the target failed too,
\* storeUpload has rejected with the write stream's error, not the unlink
\* error.
C5_OriginalErrorReported ==
  \A h \in Handles :
    ( /\ ws[h] = "destroyed"
      /\ wsError[h] \in {"EREAD", "EWRITE", "EOPEN"}
      /\ unlinkError[h] # "none" )
      => /\ storePromise[h] = "rejected"
         /\ reason[h] = wsError[h]
         /\ reason[h] \notin {"EPERM", "ENOENT"}

\* A write failed, the unlink of the partial file failed, and the store
\* rejected.
C5_Witness ==
  \E h \in Handles :
    /\ ws[h] = "destroyed"
    /\ wsError[h] = "EWRITE"
    /\ unlinkError[h] = "EPERM"
    /\ storePromise[h] = "rejected"
    /\ TargetExists(h)

-----------------------------------------------------------------------------
(* C6 *)

\* C6 as claimed: after a successful store the upload directory has an entry
\* whose name is exactly the filename of the returned record, so the uploads
\* listing includes every returned filename.
C6_ReturnedNameIsListed ==
  \A h \in Handles :
    storePromise[h] = "fulfilled" => value[h].filename \in readdir

-----------------------------------------------------------------------------
(* C7 *)

\* C7: the record of a successful store has a filename made of a generated
\* identifier, then "-", then the original filename unchanged, and the
\* mimetype and encoding of the upload.
C7_RecordShape ==
  \A h \in Handles :
    storePromise[h] = "fulfilled" =>
      /\ \E c \in 1..(counter - 1) :
           value[h].filename = <<ToString(c), "-">> \o uploads[h].filename
      /\ value[h].mimetype = uploads[h].mimetype
      /\ value[h].encoding = uploads[h].encoding

\* A file whose original name holds a query mark was stored: the record
\* keeps the name whole.
C7_Witness ==
  \E h \in Handles :
    /\ storePromise[h] = "fulfilled"
    /\ uploads[h].filename = <<"a", "?", "b">>
    /\ value[h] = [ filename |-> <<"1", "-", "a", "?", "b">>,
                    mimetype |-> "text/plain",
                    encoding |-> "7bit" ]

-----------------------------------------------------------------------------
(* C8 *)

\* Every store invocation that was started is over, its streams included.
AllDone ==
  /\ \E h \in Handles : Started(h)
  /\ \A h \in Handles :
       ~InProgress(h) /\ ws[h] \in {"none", "closed", "destroyed"}

-----------------------------------------------------------------------------
(* C9 *)

\* The stored file of a resolved store survives this step unmodified.
StoredFileKept(h) ==
  (storePromise[h] = "fulfilled" /\ TargetExists(h)) =>
    /\ Target(h) \in DOMAIN dir'
    /\ dir'[Target(h)] = dir[Target(h)]

\* C9 as claimed: once storeUpload has resolved for a handle, no later step
\* deletes or modifies the stored file.
C9_StoredFileImmutable ==
  [][\A h \in Handles : StoredFileKept(h)]_vars

-----------------------------------------------------------------------------
(* C10 *)

\* The records of the result are in the order their stores completed.
CompletionOrdered ==
  \A i, j \in DOMAIN storedFileNames :
    i < j <=> Pos(completed, HandleAt(i)) < Pos(completed, HandleAt(j))

\* The records of the result are in the order of the submitted handles.
SubmissionOrdered ==
  \A i, j \in DOMAIN storedFileNames : i < j <=> HandleAt(i) < HandleAt(j)

\* C10 as claimed: the returned sequence is in completion order.
C10_CompletionOrder ==
  mu = "returned" => CompletionOrdered

\* C10, amended: the sequence returned by the Promise.all version is in
\* completion order; the sequence returned by the Promise.allSettled version
\* is in submission order.
C10_OrderByVersion ==
  mu = "returned" =>
    IF variant = "all" THEN CompletionOrdered ELSE SubmissionOrdered

\* The Promise.all version returned two records whose stores completed in
\* the reverse of the submission order.
C10_Witness ==
  /\ variant = "all"
  /\ mu = "returned"
  /\ Len(storedFileNames) >= 2
  /\ HandleAt(1) > HandleAt(2)

-----------------------------------------------------------------------------
(* C11 *)

\* C11: multipleUpload called with an empty sequence of handles returns at
\* once with an empty sequence: it is never left pending, no store is
\* invoked, no identifier is generated, no file is created or touched, and
\* no diagnostic is logged.
C11_EmptyRequest ==
  files = {} =>
    /\ mu \in {"idle", "returned"}
    /\ storedFileNames = <<>>
    /\ diagnostics = <<>>
    /\ completed = <<>>
    /\ counter = 1
    /\ \A h \in Handles :
         ~Started(h) /\ storePromise[h] = "none" /\ ws[h] = "none"
    /\ dir = [n \in {OldName} |-> OldContent]

\* multipleUpload has returned from a request without files.
C11_Witness ==
  files = {} /\ mu = "returned"

-----------------------------------------------------------------------------
(* C12 *)

-----------------------------------------------------------------------------
(* C13 *)

\* C13: in a singleUpload request the promise the caller holds rejects when
\* the store rejects, at that very step and with the store's error; it is
\* fulfilled only when the store has fulfilled, so a failed upload never
\* yields a StoredFile.
C13_FailurePropagates ==
  \A h \in files :
    /\ storePromise[h] = "rejected" =>
         su.state = "rejected" /\ su.reason = reason[h]
    /\ su.state = "rejected" => storePromise[h] = "rejected"
    /\ su.state = "fulfilled" =>
         storePromise[h] = "fulfilled" /\ value[h] = StoredFile(h)
    /\ su.state = "pending" <=> storePromise[h] = "pending"

\* A singleUpload whose write failed after the file was created: the caller
\* got the write error.
C13_Witness ==
  \E h \in files :
    /\ su = [state |-> "rejected", reason |-> "EWRITE"]
    /\ storePromise[h] = "rejected"
    /\ ws[h] = "destroyed"

-----------------------------------------------------------------------------
(* C14 *)

\* C14 as claimed: whenever storeUpload has rejected, the deletion of its
\* target was attempted and the deletion's callback has run.
C14_DeletionOnEveryFailure ==
  \A h \in Handles :
    storePromise[h] = "rejected" => ws[h] = "destroyed"

\* C14, amended: whenever storeUpload has rejected, either the deletion of
\* its target was attempted and the deletion's callback has run, or the
\* invocation failed before it had a write stream (upload.file undefined,
\* createWriteStream throwing) and then no deletion was attempted and no
\* target exists.
C14_DeletionOnStreamFailure ==
  \A h \in Handles :
    storePromise[h] = "rejected" =>
      \/ ws[h] = "destroyed"
      \/ /\ ws[h] = "none"
         /\ reason[h] \in {"TypeError", ThrownError}
         /\ ~TargetExists(h)

\* The open of the target failed; the deletion was attempted, found nothing
\* to delete, and only then the store rejected with the open error.
C14_Witness ==
  \E h \in Handles :
    /\ storePromise[h] = "rejected"
    /\ reason[h] = "EOPEN"
    /\ ws[h] = "destroyed"
    /\ unlinkError[h] = "ENOENT"

-----------------------------------------------------------------------------
(* C15 *)

\* C15: when storeUpload has resolved, and for as long as its write stream
\* stays free of error, the read stream has ended and the stored file holds
\* exactly the chunks the read stream emitted, each once, in emission order.
C15_CompleteInOrder ==
  \A h \in Handles :
    (storePromise[h] = "fulfilled" /\ ws[h] \in {"finished", "closed"}) =>
      /\ rs[h] = "ended"
      /\ wbuf[h] = <<>>
      /\ TargetExists(h)
      /\ dir[Target(h)] = Emitted(h)

\* A store resolved after its read stream emitted MaxChunks chunks, while
\* another store was writing: the file holds them in order.
C15_Witness ==
  \E h, g \in Handles :
    /\ storePromise[h] = "fulfilled"
    /\ ws[h] = "finished"
    /\ sent[h] = MaxChunks
    /\ dir[Target(h)] = [k \in 1..MaxChunks |-> <<h, k>>]
    /\ g # h
    /\ ws[g] = "open"
    /\ sent[g] >= 1

-----------------------------------------------------------------------------
(* C16 *)

\* An event of the streams or of the file system of the invocation for h.
\* Only these settle the promise of that invocation.
StoreStep(h) ==
  \/ Data(h) \/ ReadEnd(h) \/ ReadError(h) \/ ReadClose(h)
  \/ OpenDone(h) \/ OpenFail(h)
  \/ WriteDone(h) \/ WriteFail(h)
  \/ Finish(h)
  \/ UnlinkDone(h) \/ UnlinkFail(h)

\* C16 as claimed, in the form a finite run can refute: a store invocation
\* that has not yet resolved or rejected still has a stream or file system
\* event to come, whatever its read stream did; without one, no scheduling
\* can bring it to a final state and multipleUpload cannot return.
C16_PendingStoreCanStep ==
  \A h \in Handles :
    storePromise[h] = "pending" => ENABLED StoreStep(h)

-----------------------------------------------------------------------------
(* C17 *)

\* C17: multipleUpload launches the work of every handle in the call itself:
\* once it is called no handle is left unlaunched, a callback whose own
\* upload promise has resolved can start its store whatever the other
\* handles are doing, and a store whose own streams are done can finish
\* whatever the other handles are doing.
C17_LaunchedTogether ==
  /\ mu # "idle" =>
       \A h \in files :
         IF variant = "all" THEN task[h] # "none"
         ELSE storePromise[h] # "none"
  /\ \A h \in files :
       /\ (task[h] = "awaiting" /\ promise[h] = "resolved")
            => ENABLED AwaitResolved(h)
       /\ (ws[h] = "open" /\ rs[h] = "ended" /\ wbuf[h] = <<>>)
            => ENABLED Finish(h)

\* The stores of all handles are in progress at the same time, each with an
\* open write stream and a chunk emitted.
C17_Witness ==
  /\ variant = "all"
  /\ mu = "pending"
  /\ \A h \in Handles :
       /\ task[h] = "storing"
       /\ storePromise[h] = "pending"
       /\ ws[h] = "open"
       /\ sent[h] >= 1

-----------------------------------------------------------------------------
(* C18 *)

\* C18: for a handle whose upload promise has rejected, no stream is created
\* and no name composed, and in the Promise.all version storeUpload is not
\* called; its callback logs exactly one diagnostic as soon as it is over;
\* when multipleUpload has returned, the handle has exactly one diagnostic
\* and no record in the result, and every other handle that stored its file
\* cleanly has its complete file and its record.
C18_RejectedUploadPromise ==
  \A h \in files :
    promise[h] = "rejected" =>
      /\ ~Started(h)
      /\ rs[h] = "none" /\ ws[h] = "none" /\ sent[h] = 0
      /\ variant = "all" => storePromise[h] = "none"
      /\ (variant = "all" /\ task[h] \notin {"none", "awaiting"}) =>
           Count(diagnostics, h) = 1
      /\ mu = "returned" =>
           /\ Count(diagnostics, h) = 1
           /\ \A i \in DOMAIN storedFileNames :
                \E g \in files \ {h} :
                  storePromise[g] = "fulfilled"
                    /\ storedFileNames[i] = value[g]
           /\ \A g \in files \ {h} :
                CleanSuccess(g) =>
                  /\ TargetExists(g)
                  /\ dir[Target(g)] = Emitted(g)
                  /\ Count(storedFileNames, value[g]) = 1

\* The Promise.all version returned the record of one handle after the
\* upload promise of the other had rejected.
C18_Witness ==
  /\ variant = "all"
  /\ mu = "returned"
  /\ \E h, g \in files :
       /\ promise[h] = "rejected"
       /\ diagnostics = << h >>
       /\ CleanSuccess(g)
       /\ sent[g] >= 1
       /\ storedFileNames = << value[g] >>

-----------------------------------------------------------------------------
(* C19 *)

\* What the transport and the streams did for h, whichever version runs:
\* the file was delivered and neither a stream nor the target path failed.
UploadSucceeded(h) ==
  /\ promise[h] = "resolved"
  /\ reason[h] \notin {"EREAD", "EWRITE", "EOPEN", ThrownError}

\* C19 as claimed: both versions compute the same result from what happened
\* to each handle: when multipleUpload has returned, no handle's work is
\* still in progress, the result holds one record for exactly the handles
\* whose file was delivered and stored without failure, and one diagnostic
\* is logged for each other handle.
C19_VersionsAgree ==
  mu = "returned" =>
    /\ \A h \in files : ~InProgress(h)
    /\ \A h \in files :
         UploadSucceeded(h) <=>
           /\ storePromise[h] = "fulfilled"
           /\ Count(storedFileNames, value[h]) = 1
    /\ Len(storedFileNames) =
         Cardinality({ h \in files : UploadSucceeded(h) })
    /\ Len(diagnostics) =
         Cardinality({ h \in files : ~UploadSucceeded(h) })

====
